---- MODULE Spec2Model ----
(***************************************************************************)
(* Model of build.py, the FIX data-dictionary compiler of                  *)
(* quickfix_cracker_py: the field / component registries, the recursive    *)
(* class expansion, the emission of the per-message modules, the enum      *)
(* module and the aggregating module, the emitted from_raw / to_raw /      *)
(* crack code run against an abstract tag-value view, and a second run of  *)
(* the compiler over the output directory of the first.                    *)
(*                                                                         *)
(* Representation choices:                                                 *)
(*  - an XML element is a record [tag, name, required, body];              *)
(*  - a qualified name "A.B.C" is the sequence <<"A","B","C">> of its      *)
(*    dot-free segments (to_ns_name asserts that a name holds no dot);     *)
(*  - a Python dict is the sequence of its values in insertion order;      *)
(*  - a Python object identity (an Item) is the field oid of its record;   *)
(*  - a raised exception is a non-empty err string.                        *)
(***************************************************************************)
EXTENDS Integers, Sequences, FiniteSets, TLC

VARIABLES doc, pc, err, map_fields, map_components, map_classes, next_oid,
          ci, modules, files, enums_out, rt, disk

vars == <<doc, pc, err, map_fields, map_components, map_classes, next_oid,
          ci, modules, files, enums_out, rt, disk>>

\* ------------------------------------------------------------------ bounds
\* most children one message element carries in the dictionaries explored
MaxItems == 2
\* most entries one repeating group holds in the records explored
MaxEntries == 1
\* frames expand_component_rec may nest before the interpreter gives up
MaxDepth == 6

\* ------------------------------------------------------------ Python values
None == "<None>"
NoErr == ""

Last(s) == s[Len(s)]

RECURSIVE IndexOf(_, _, _)
\* first index i >= from with s[i].ns_name = key, 0 when there is none
IndexOf(s, key, from) ==
    IF from > Len(s) THEN 0
    ELSE IF s[from].ns_name = key THEN from
    ELSE IndexOf(s, key, from + 1)

\* `key in d` for a dict of metas keyed by ns_name
HasKey(d, key) == IndexOf(d, key, 1) # 0
Lookup(d, key) == d[IndexOf(d, key, 1)]

\* `name in items` for an OrderedDict of Item keyed by name
HasItem(items, name) == \E i \in 1..Len(items) : items[i].name = name

\* `name in map_fields`
HasField(fields, name) == \E i \in 1..Len(fields) : fields[i].name = name
FieldOf(fields, name) ==
    fields[CHOOSE i \in 1..Len(fields) : fields[i].name = name]

\* ----------------------------------------------------------------- TYP_MAP
StrTypes == {"STRING", "CURRENCY", "MULTIPLEVALUESTRING", "MULTIPLESTRINGVALUE",
             "MULTIPLECHARVALUE", "EXCHANGE", "LOCALMKTDATE", "DATA", "MONTHYEAR",
             "DAYOFMONTH", "COUNTRY", "TZTIMEONLY", "TZTIMESTAMP", "XMLDATA",
             "LANGUAGE", "UTCTIMESTAMP", "UTCDATE", "UTCDATEONLY", "UTCTIMEONLY",
             "DATE", "TIME", "CHAR"}
BoolTypes == {"BOOLEAN"}
FloatTypes == {"PRICEOFFSET", "FLOAT", "PRICE", "AMT", "QTY", "PERCENTAGE"}
IntTypes == {"INT", "NUMINGROUP", "SEQNUM", "LENGTH", "NumInGroup"}

InTypMap(typ) == typ \in StrTypes \cup BoolTypes \cup FloatTypes \cup IntTypes

TYP_MAP(typ) ==
    IF typ \in StrTypes THEN "str"
    ELSE IF typ \in BoolTypes THEN "bool"
    ELSE IF typ \in FloatTypes THEN "float"
    ELSE "int"

\* to_ns_name: ns + "." + name, or name alone under the empty namespace
to_ns_name(ns, name) == IF Len(ns) > 0 THEN ns \o <<name>> ELSE <<name>>

\* ------------------------------------------------------------- constructors
FieldMeta(number, name, type_name, enums) ==
    [number |-> number, name |-> name, type_name |-> type_name, enums |-> enums]

\* a fresh Item object: oid is its identity
Item(name, required, kind, oid) ==
    [name |-> name, required |-> required, kind |-> kind, oid |-> oid]

ClassMeta(ns_name, msgcat, msgtype, items) ==
    [ns_name |-> ns_name, msgcat |-> msgcat, msgtype |-> msgtype, items |-> items]

ComponentMeta(ns_name, items) == [ns_name |-> ns_name, items |-> items]

\* --------------------------------------------------- the XML of a dictionary
XField(n, r) == [tag |-> "field", name |-> n, required |-> r, body |-> <<>>]
XGroup(n, r, b) == [tag |-> "group", name |-> n, required |-> r, body |-> b]
XComp(n, r) == [tag |-> "component", name |-> n, required |-> r, body |-> <<>>]
XCompDef(n, b) == [tag |-> "component", name |-> n, required |-> "", body |-> b]
XMsg(n, ty, b) ==
    [tag |-> "message", name |-> n, msgcat |-> "app", msgtype |-> ty, body |-> b]
XFieldDef(num, n, ty, en) ==
    [tag |-> "field", number |-> num, name |-> n, type |-> ty, enums |-> en]

\* ------------------------------------------------------------ dict updates
Raise(st, e) == [st EXCEPT !.err = e]

\* d[item.name] = item on an OrderedDict: a new key is appended, an existing
\* key keeps its position and takes the new value
DictSet(items, item) ==
    IF HasItem(items, item.name)
    THEN [i \in 1..Len(items) |->
             IF items[i].name = item.name THEN item ELSE items[i]]
    ELSE Append(items, item)

\* ----------------------------------------------------------- field registry
\* st = [fields, err]
traverse_fields_rec(element, st) ==
    IF ~InTypMap(element.type) THEN Raise(st, "unknown typ")
    ELSE IF HasField(st.fields, element.name)
    THEN Raise(st, "duplicated field number")
    ELSE [st EXCEPT !.fields =
             Append(@, FieldMeta(element.number, element.name,
                                 element.type, element.enums))]

RECURSIVE traverse_fields_loop(_, _, _)
traverse_fields_loop(fields, st, i) ==
    IF st.err # NoErr \/ i > Len(fields) THEN st
    ELSE traverse_fields_loop(fields, traverse_fields_rec(fields[i], st), i + 1)

traverse_fields(d) ==
    traverse_fields_loop(d.fields, [fields |-> <<>>, err |-> NoErr], 1)

\* ------------------------------------------------------- component registry
\* st = [comps, err, oid]
RECURSIVE traverse_components_rec(_, _, _)
RECURSIVE traverse_components_items(_, _, _, _)

traverse_components_rec(st, element, ns) ==
    LET ns_name == to_ns_name(ns, element.name) IN
    IF st.err # NoErr THEN st
    ELSE IF HasKey(st.comps, ns_name) THEN Raise(st, "duplicated component")
    ELSE traverse_components_items(
             [st EXCEPT !.comps = Append(@, ComponentMeta(ns_name, <<>>))],
             element.body, ns_name, 1)

traverse_components_items(st, body, ns_name, i) ==
    IF st.err # NoErr \/ i > Len(body) THEN st
    ELSE LET item == body[i]
             k == IndexOf(st.comps, ns_name, 1)
         IN IF item.tag \notin {"field", "group", "component"}
            THEN Raise(st, "not possible for component")
            ELSE IF HasItem(st.comps[k].items, item.name)
            THEN Raise(st, "item_name in component.items")
            ELSE LET st1 == [st EXCEPT
                                !.comps[k].items = Append(@,
                                    Item(item.name, item.required, item.tag, st.oid)),
                                !.oid = @ + 1]
                     st2 == IF item.tag = "group"
                            THEN traverse_components_rec(st1, item, ns_name)
                            ELSE st1
                 IN traverse_components_items(st2, body, ns_name, i + 1)

RECURSIVE traverse_components_loop(_, _, _)
traverse_components_loop(components, st, i) ==
    IF st.err # NoErr \/ i > Len(components) THEN st
    ELSE traverse_components_loop(
             components, traverse_components_rec(st, components[i], <<>>), i + 1)

traverse_components(d) ==
    traverse_components_loop(d.components,
                             [comps |-> <<>>, err |-> NoErr, oid |-> 1], 1)

\* ---------------------------------------------------------- schema expander
\* st = [classes, err, oid]; a class_meta object is named by its ns_name, the
\* key it is stored under in map_classes before anything is added to it
RECURSIVE expand_component_rec(_, _, _, _, _)
RECURSIVE expand_component_items(_, _, _, _, _, _)

\* a variant that inserts without the assert
InsertComponentItem_NoAssert(st, k, item) ==
    [st EXCEPT !.classes[k].items = DictSet(@, item)]

\* the assert + insertion of lines 229-230 and 232-233: the very Item object
\* of the component definition goes into the class
InsertComponentItem(st, k, item) ==
    IF HasItem(st.classes[k].items, item.name)
    THEN Raise(st, "item.name in class_meta.items")
    ELSE [st EXCEPT !.classes[k].items = DictSet(@, item)]

\* a variant that roots the group's class under the component's name
ExpandGroupOfComponent_Rooted(st, class_ns, group_or_component, item, comps, depth) ==
    LET ns_name == to_ns_name(group_or_component.ns_name, item.name)
        ns_component_name == to_ns_name(group_or_component.ns_name, item.name)
    IN IF HasKey(st.classes, ns_name)
       THEN Raise(st, "duplicated class in expanding")
       ELSE IF ~HasKey(comps, ns_component_name)
       THEN Raise(st, "component live in global namespace and differ from class")
       ELSE expand_component_rec(
                [st EXCEPT !.classes =
                    Append(@, ClassMeta(ns_name, None, None, <<>>))],
                ns_name, Lookup(comps, ns_component_name), comps, depth + 1)

\* lines 239-246: the class of a group found in a component
ExpandGroupOfComponent(st, class_ns, group_or_component, item, comps, depth) ==
    LET ns_name == to_ns_name(class_ns, item.name)
        ns_component_name == to_ns_name(group_or_component.ns_name, item.name)
    IN IF HasKey(st.classes, ns_name)
       THEN Raise(st, "duplicated class in expanding")
       ELSE IF ~HasKey(comps, ns_component_name)
       THEN Raise([st EXCEPT !.classes =
                      Append(@, ClassMeta(ns_name, None, None, <<>>))],
                  "component live in global namespace and differ from class")
       ELSE expand_component_rec(
                [st EXCEPT !.classes =
                    Append(@, ClassMeta(ns_name, None, None, <<>>))],
                ns_name, Lookup(comps, ns_component_name), comps, depth + 1)

\* a variant that stores the reference in the class like a field
ExpandComponentOfComponent_Insert(st, class_ns, item, comps, depth) ==
    InsertComponentItem(st, IndexOf(st.classes, class_ns, 1), item)

\* lines 248-250: a component referenced from a component
ExpandComponentOfComponent(st, class_ns, item, comps, depth) ==
    IF ~HasKey(comps, <<item.name>>)
    THEN Raise(st, "item.name not in map_components")
    ELSE expand_component_rec(st, class_ns, Lookup(comps, <<item.name>>),
                              comps, depth + 1)

expand_component_items(st, class_ns, group_or_component, comps, depth, i) ==
    IF st.err # NoErr \/ i > Len(group_or_component.items) THEN st
    ELSE LET item == group_or_component.items[i]
             k == IndexOf(st.classes, class_ns, 1)
             st1 == IF item.kind = "field"
                    THEN InsertComponentItem(st, k, item)
                    ELSE IF item.kind = "group"
                    THEN LET st0 == InsertComponentItem(st, k, item)
                         IN IF st0.err # NoErr THEN st0
                            ELSE ExpandGroupOfComponent(
                                     st0, class_ns, group_or_component,
                                     item, comps, depth)
                    ELSE IF item.kind = "component"
                    THEN ExpandComponentOfComponent(st, class_ns, item, comps, depth)
                    ELSE Raise(st, "not possible")
         IN expand_component_items(st1, class_ns, group_or_component,
                                   comps, depth, i + 1)

\* the interpreter's recursion limit ends a run that nests too deep
expand_component_rec(st, class_ns, group_or_component, comps, depth) ==
    IF st.err # NoErr THEN st
    ELSE IF depth > MaxDepth THEN Raise(st, "RecursionError")
    ELSE expand_component_items(st, class_ns, group_or_component, comps, depth, 1)

RECURSIVE traverse_classes_rec(_, _, _, _)
RECURSIVE traverse_classes_items(_, _, _, _, _)

\* lines 274-278 and 280-283: a field or group declared in the element itself
InsertDeclaredItem(st, k, item) ==
    IF HasItem(st.classes[k].items, item.name)
    THEN Raise(st, "item_name in class_meta.items")
    ELSE [st EXCEPT
             !.classes[k].items =
                 DictSet(@, Item(item.name, item.required, item.tag, st.oid)),
             !.oid = @ + 1]

\* lines 286-290: a component referenced from a message or group element
ExpandComponentOfClass(st, k, ns_name, item, comps) ==
    IF HasItem(st.classes[k].items, item.name)
    THEN Raise(st, "item_name in class_meta.items")
    ELSE IF ~HasKey(comps, <<item.name>>) THEN Raise(st, "KeyError")
    ELSE expand_component_rec(st, ns_name, Lookup(comps, <<item.name>>), comps, 1)

\* a variant that roots every group class in the global namespace
GroupNamespace_Global(ns_name) == <<>>

\* the namespace a group element's class is rooted under (line 284)
GroupNamespace(ns_name) == ns_name

traverse_classes_items(st, ns_name, body, comps, i) ==
    IF st.err # NoErr \/ i > Len(body) THEN st
    ELSE LET item == body[i]
             k == IndexOf(st.classes, ns_name, 1)
             st1 == IF item.tag = "field"
                    THEN InsertDeclaredItem(st, k, item)
                    ELSE IF item.tag = "group"
                    THEN LET st0 == InsertDeclaredItem(st, k, item)
                         IN IF st0.err # NoErr THEN st0
                            ELSE traverse_classes_rec(
                                     st0, GroupNamespace(ns_name), item, comps)
                    ELSE IF item.tag = "component"
                    THEN ExpandComponentOfClass(st, k, ns_name, item, comps)
                    ELSE Raise(st, "not possible")
         IN traverse_classes_items(st1, ns_name, body, comps, i + 1)

traverse_classes_rec(st, ns, element, comps) ==
    LET ns_name == to_ns_name(ns, element.name)
        msgcat == IF Len(ns) = 0 THEN element.msgcat ELSE None
        msgtype == IF Len(ns) = 0 THEN element.msgtype ELSE None
    IN IF st.err # NoErr THEN st
       ELSE IF Len(ns) = 0 /\ ~({"msgcat", "msgtype"} \subseteq DOMAIN element)
       THEN Raise(st, "KeyError")
       ELSE IF HasKey(st.classes, ns_name) THEN Raise(st, "class duplicated")
       ELSE traverse_classes_items(
                [st EXCEPT !.classes =
                    Append(@, ClassMeta(ns_name, msgcat, msgtype, <<>>))],
                ns_name, element.body, comps, 1)

RECURSIVE traverse_classes_loop(_, _, _, _)
traverse_classes_loop(messages, st, comps, i) ==
    IF st.err # NoErr \/ i > Len(messages) THEN st
    ELSE traverse_classes_loop(
             messages, traverse_classes_rec(st, <<>>, messages[i], comps),
             comps, i + 1)

\* oid0: the next free object identity after the component registry was built
traverse_classes(d, comps, oid0) ==
    traverse_classes_loop(d.messages,
                          [classes |-> <<>>, err |-> NoErr, oid |-> oid0],
                          comps, 1)

\* ------------------------------------------------------------------ emitter
\* camel_to_sname on the names the dictionaries explored use: a CamelCase
\* name's snake form; a name without capitals is left as it is
SnakeNames == [A |-> "a", B |-> "b", E |-> "e", G |-> "g", H |-> "h",
               K |-> "k", L |-> "l", M1 |-> "m1", M2 |-> "m2"]
camel_to_sname(name) ==
    IF name \in DOMAIN SnakeNames THEN SnakeNames[name] ELSE name

\* the tags of the dictionaries explored that start with a digit
DigitLed == {"1ST"}
valid_ident(tag) ==
    IF tag \in DigitLed \/ tag \in {"yield"} THEN "_" \o tag ELSE tag

\* get_ids: the count tag of a group class and the tags of its items
RECURSIVE ItemNumbers(_, _, _)
ItemNumbers(items, fields, i) ==
    IF i > Len(items) THEN [err |-> NoErr, ids |-> <<>>]
    ELSE IF ~HasField(fields, items[i].name)
    THEN [err |-> "KeyError", ids |-> <<>>]
    ELSE LET rest == ItemNumbers(items, fields, i + 1)
         IN IF rest.err # NoErr THEN rest
            ELSE [err |-> NoErr,
                  ids |-> <<FieldOf(fields, items[i].name).number>> \o rest.ids]

get_ids(class_meta, fields) ==
    LET item_name == Last(class_meta.ns_name) IN
    IF ~HasField(fields, item_name)
    THEN [err |-> "KeyError", id_g |-> 0, ids_g |-> <<>>]
    ELSE LET nums == ItemNumbers(class_meta.items, fields, 1) IN
         IF nums.err # NoErr THEN [err |-> nums.err, id_g |-> 0, ids_g |-> <<>>]
         ELSE IF ~(Len(nums.ids) > 0)
         THEN [err |-> "group has zero field", id_g |-> 0, ids_g |-> <<>>]
         ELSE [err |-> NoErr,
               id_g |-> FieldOf(fields, item_name).number,
               ids_g |-> Append(nums.ids, 0)]

\* one emitted member: the record field, its getter line and its setter line
Member(s_item_name, kind, number, conv, enum, optional, utc, ids_g, sub_ns) ==
    [s_item_name |-> s_item_name, kind |-> kind, number |-> number,
     conv |-> conv, enum |-> enum, optional |-> optional, utc |-> utc,
     ids_g |-> ids_g, sub_ns |-> sub_ns]

\* a variant that sorts on the item's index alone
FieldKeyLess_IndexOnly(a, b) == a.idx_ori < b.idx_ori

\* s_fields.sort(): tuples (is_default, idx_ori, text) in ascending order
FieldKeyLess(a, b) ==
    \/ a.is_default < b.is_default
    \/ a.is_default = b.is_default /\ a.idx_ori < b.idx_ori

RECURSIVE SortFields(_)
SortFields(s) ==
    IF Len(s) = 0 THEN <<>>
    ELSE LET m == CHOOSE i \in 1..Len(s) :
                      \A j \in 1..Len(s) : j = i \/ FieldKeyLess(s[i], s[j])
             rest == [j \in 1..(Len(s) - 1) |-> IF j < m THEN s[j] ELSE s[j + 1]]
         IN <<s[m]>> \o SortFields(rest)

\* lines 342-377: what is emitted for a field item
FieldMember(item, s_item_name, fields) ==
    LET field == FieldOf(fields, item.name)
        typeto == TYP_MAP(field.type_name)
    IN Member(s_item_name, "field", field.number, typeto,
              IF Len(field.enums) > 0 THEN field.name ELSE None,
              item.required # "Y",
              field.type_name = "UTCTIMESTAMP", <<>>, <<>>)

RECURSIVE generate_class_def(_, _, _)
RECURSIVE generate_members(_, _, _, _, _)

\* acc = [err, members, s_fields, sub]
generate_members(class_meta, classes, fields, acc, i) ==
    IF acc.err # NoErr \/ i > Len(class_meta.items) THEN acc
    ELSE
    LET item == class_meta.items[i]
        s_item_name == valid_ident(camel_to_sname(item.name))
        idx_ori == i - 1
        fail(e) == [acc EXCEPT !.err = e]
        sub_ns == class_meta.ns_name \o <<item.name>>
    IN
    IF s_item_name = item.name THEN fail("name conflicts")
    ELSE IF item.required \notin {"", "Y", "N"} THEN fail("AssertionError")
    ELSE IF item.kind = "field"
    THEN IF ~HasField(fields, item.name) THEN fail("KeyError")
         ELSE IF Len(FieldOf(fields, item.name).enums) > 0
                 /\ FieldOf(fields, item.name).type_name = "UTCTIMESTAMP"
         THEN fail("wtf, a timestamp as enum?")
         ELSE LET m == FieldMember(item, s_item_name, fields) IN
              generate_members(class_meta, classes, fields,
                  [acc EXCEPT
                      !.members = Append(@, m),
                      !.s_fields = Append(@,
                          [is_default |-> IF m.optional THEN 1 ELSE 0,
                           idx_ori |-> idx_ori, s_item_name |-> s_item_name])],
                  i + 1)
    ELSE IF item.kind = "group"
    THEN IF ~HasKey(classes, sub_ns) THEN fail("KeyError: map_classes")
         ELSE LET sub_class_meta == Lookup(classes, sub_ns)
                  g == get_ids(sub_class_meta, fields)
              IN IF g.err # NoErr THEN fail(g.err)
                 ELSE LET sub == generate_class_def(sub_class_meta, classes, fields)
                      IN IF sub.err # NoErr THEN fail(sub.err)
                         ELSE generate_members(class_meta, classes, fields,
                                  [acc EXCEPT
                                      !.members = Append(@,
                                          Member(s_item_name, "group", g.id_g, "list",
                                                 None, TRUE, FALSE, g.ids_g, sub_ns)),
                                      !.s_fields = Append(@,
                                          [is_default |-> 1, idx_ori |-> idx_ori,
                                           s_item_name |-> s_item_name]),
                                      !.sub = Append(@, sub.cls)],
                                  i + 1)
    ELSE fail("component must be expanded before generate definitions")

NoClass == [ns_name |-> <<>>, msgtype |-> None, id_g |-> 0, ids_g |-> <<>>,
            s_fields |-> <<>>, members |-> <<>>, sub |-> <<>>]

\* the emitted class: its header, record fields (sorted), members in item
\* order (from_raw's getters and to_raw's setters), nested classes
generate_class_def(class_meta, classes, fields) ==
    LET root == Len(class_meta.ns_name) = 1
        head == IF root
                THEN [err |-> NoErr, id_g |-> 0, ids_g |-> <<>>]
                ELSE get_ids(class_meta, fields)
    IN IF head.err # NoErr THEN [err |-> head.err, cls |-> NoClass]
       ELSE LET acc == generate_members(class_meta, classes, fields,
                           [err |-> NoErr, members |-> <<>>,
                            s_fields |-> <<>>, sub |-> <<>>], 1)
            IN IF acc.err # NoErr THEN [err |-> acc.err, cls |-> NoClass]
               ELSE [err |-> NoErr,
                     cls |-> [ns_name |-> class_meta.ns_name,
                              msgtype |-> class_meta.msgtype,
                              id_g |-> head.id_g, ids_g |-> head.ids_g,
                              s_fields |-> SortFields(acc.s_fields),
                              members |-> acc.members,
                              sub |-> acc.sub]]

\* write_class_to_file: the text is generated before the file is opened
write_class_to_file(fpath, class_meta, classes, fields, fs) ==
    LET g == generate_class_def(class_meta, classes, fields) IN
    IF g.err # NoErr THEN [err |-> g.err, files |-> fs]
    ELSE [err |-> NoErr,
          files |-> Append(fs, [path |-> fpath, kind |-> "class",
                                content |-> g.cls])]

\* ------------------------------------------------------------ Python values
PyStr(x) == [t |-> "str", v |-> x]
PyInt(x) == [t |-> "int", v |-> x]
PyFloat(x) == [t |-> "float", v |-> x]
PyBool(x) == [t |-> "bool", v |-> x]
PyNone == [t |-> "none", v |-> None]
\* a member of the enum class `enum`, named by the value it wraps
PyEnum(enum, value) == [t |-> "enum", v |-> value, enum |-> enum]
PyList(x) == [t |-> "list", v |-> x]

\* the integers whose decimal text the dictionaries and records explored hold
IntRange == 0..9
Parses(x) == \E i \in IntRange : ToString(i) = x
ParseInt(x) == CHOOSE i \in IntRange : ToString(i) = x

\* str(x), int(x), float(x) on a wire string: [err, val]
Convert(conv, x) ==
    IF conv = "str" THEN [err |-> NoErr, val |-> PyStr(x)]
    ELSE IF conv = "int"
    THEN IF Parses(x) THEN [err |-> NoErr, val |-> PyInt(ParseInt(x))]
         ELSE [err |-> "ValueError", val |-> PyNone]
    ELSE IF conv = "float"
    THEN IF Parses(x) THEN [err |-> NoErr, val |-> PyFloat(ParseInt(x))]
         ELSE [err |-> "ValueError", val |-> PyNone]
    ELSE [err |-> "TypeError", val |-> PyNone]

\* the typefun table of write_enums_to_file (lines 454-459)
typefun(conv, x) ==
    IF conv = "bool"
    THEN IF x = "Y" THEN [err |-> NoErr, val |-> PyBool(TRUE)]
         ELSE IF x \in {"N", ""} THEN [err |-> NoErr, val |-> PyBool(FALSE)]
         ELSE [err |-> "KeyError", val |-> PyNone]
    ELSE Convert(conv, x)

\* the retry limit of the enum-name loop (line 467)
RetryLimit == 10

RECURSIVE deduplicate_OneMore(_, _, _)
\* a variant whose assert lets the loop run once more
deduplicate_OneMore(nm_deduplicated, names, count) ==
    IF nm_deduplicated \notin names
    THEN [err |-> NoErr, nm |-> nm_deduplicated]
    ELSE IF ~(count <= RetryLimit)
    THEN [err |-> "WTF: enums with same name", nm |-> nm_deduplicated]
    ELSE deduplicate_OneMore("_" \o nm_deduplicated, names, count + 1)

RECURSIVE deduplicate(_, _, _)
\* lines 465-469: prefix "_" until the name is new
deduplicate(nm_deduplicated, names, count) ==
    IF nm_deduplicated \notin names
    THEN [err |-> NoErr, nm |-> nm_deduplicated]
    ELSE IF ~(count < RetryLimit)
    THEN [err |-> "WTF: enums with same name", nm |-> nm_deduplicated]
    ELSE deduplicate("_" \o nm_deduplicated, names, count + 1)

RECURSIVE enum_members(_, _, _, _)
\* lines 463-471 for one field: acc = [err, field_s, names]
enum_members(fm, typeto, acc, i) ==
    IF acc.err # NoErr \/ i > Len(fm.enums) THEN acc
    ELSE LET nm == fm.enums[i][1]
             tag == fm.enums[i][2]
             d == deduplicate(valid_ident(tag), acc.names, 1)
             c == typefun(typeto, nm)
         IN IF d.err # NoErr THEN [acc EXCEPT !.err = d.err]
            ELSE IF c.err # NoErr THEN [acc EXCEPT !.err = c.err]
            ELSE enum_members(fm, typeto,
                     [acc EXCEPT
                         !.field_s = Append(@, [name |-> d.nm, value |-> c.val]),
                         !.names = @ \cup {d.nm}],
                     i + 1)

RECURSIVE enum_classes(_, _, _)
\* lines 450-476: acc = [err, enums, out]
enum_classes(field_map, acc, i) ==
    IF acc.err # NoErr \/ i > Len(field_map) THEN acc
    ELSE LET fm == field_map[i] IN
         IF Len(fm.enums) = 0 THEN enum_classes(field_map, acc, i + 1)
         ELSE IF fm.type_name = "UTCTIMESTAMP"
         THEN [acc EXCEPT !.err = "WTF? you want a timesatmp as enum"]
         ELSE LET ms == enum_members(fm, TYP_MAP(fm.type_name),
                            [err |-> NoErr, field_s |-> <<>>, names |-> {}], 1)
              IN IF ms.err # NoErr THEN [acc EXCEPT !.err = ms.err]
                 ELSE enum_classes(field_map,
                          [acc EXCEPT
                              !.out = Append(@, fm.name),
                              !.enums = Append(@, [name |-> fm.name,
                                                   members |-> ms.field_s])],
                          i + 1)

\* write_enums_to_file: the file is written after every enum was built
write_enums_to_file(fname, field_map, fs) ==
    LET r == enum_classes(field_map, [err |-> NoErr, enums |-> <<>>, out |-> <<>>], 1)
    IN IF r.err # NoErr THEN [err |-> r.err, out |-> <<>>, files |-> fs]
       ELSE [err |-> NoErr, out |-> r.out,
             files |-> Append(fs, [path |-> fname, kind |-> "enums",
                                   content |-> r.enums])]

\* modules[msgtype] = ns_name (line 584): a dict keyed by the type code
ModulesSet(mods, msgtype, name) ==
    IF \E i \in 1..Len(mods) : mods[i].key = msgtype
    THEN [i \in 1..Len(mods) |->
             IF mods[i].key = msgtype THEN [key |-> msgtype, value |-> name]
             ELSE mods[i]]
    ELSE Append(mods, [key |-> msgtype, value |-> name])

\* the MESSAGES table of the aggregating module (line 495)
MESSAGES(mods) ==
    [i \in 1..Len(mods) |->
        [code |-> mods[i].key, cls |-> mods[i].value,
         handler |-> "on_" \o mods[i].value]]

BeginString == "FIX.4.3"

\* write_init_to_file
write_init_to_file(fname, enums, begin, mods, fs) ==
    Append(fs, [path |-> fname, kind |-> "init",
                content |-> [BeginString |-> begin,
                             MESSAGES |-> MESSAGES(mods),
                             all |-> [i \in 1..Len(mods) |-> mods[i].value]
                                     \o enums]])

\* ------------------------------------------- the abstract tag-value view
\* a fix.Message / fix.Group: the header's type code (a message), the count
\* tag, delimiter and field order (a group), and the calls made on it in order
View(msgtype, field, delim, order) ==
    [msgtype |-> msgtype, field |-> field, delim |-> delim,
     order |-> order, log |-> <<>>]
NoView == View(None, 0, 0, <<>>)

SetOp(tag, val) == [op |-> "setField", tag |-> tag, val |-> val, sub |-> NoView]
GroupOp(tag, sub) == [op |-> "addGroup", tag |-> tag, val |-> "", sub |-> sub]

setField(m, tag, val) == [m EXCEPT !.log = Append(@, SetOp(tag, val))]
\* addGroup stores the entry and keeps the count field of the group's tag
addGroup(m, g) == [m EXCEPT !.log = Append(@, GroupOp(g.field, g))]

isSetField(m, tag) == \E i \in 1..Len(m.log) : m.log[i].tag = tag

GroupCount(m, tag) ==
    Cardinality({i \in 1..Len(m.log) :
                    m.log[i].tag = tag /\ m.log[i].op = "addGroup"})

\* the field's text: what was set last, or the count addGroup maintains
getField(m, tag) ==
    LET hits == {i \in 1..Len(m.log) : m.log[i].tag = tag}
        last == CHOOSE i \in hits : \A j \in hits : j <= i
    IN IF hits = {} THEN [err |-> "FieldNotFound", val |-> ""]
       ELSE IF m.log[last].op = "setField"
       THEN [err |-> NoErr, val |-> m.log[last].val]
       ELSE [err |-> NoErr, val |-> ToString(GroupCount(m, tag))]

\* ------------------------------------------------ the emitted runtime code
\* _bool of the aggregating module (lines 508-509)
_bool(x) ==
    IF x = "Y" THEN [err |-> NoErr, val |-> PyBool(TRUE)]
    ELSE IF x = "N" THEN [err |-> NoErr, val |-> PyBool(FALSE)]
    ELSE [err |-> "KeyError", val |-> PyNone]

\* _enums.<name>(value): the member holding the value
EnumCall(enums, name, value) ==
    LET hit == {i \in 1..Len(enums) : enums[i].name = name}
        e == enums[CHOOSE i \in hit : TRUE]
    IN IF hit = {} THEN [err |-> "AttributeError", val |-> PyNone]
       ELSE IF \E k \in 1..Len(e.members) : e.members[k].value = value
       THEN [err |-> NoErr, val |-> PyEnum(name, value)]
       ELSE [err |-> "ValueError", val |-> PyNone]

\* get_group_by (lines 516-526): with the count field set, line 519 calls
\* fix.Group with four arguments, which no overload of the binding takes
\* (and line 520 reads field `id`, the builtin, not idx): the call raises
\* before any entry is decoded
get_group_by(m, idx, ids, func) ==
    IF isSetField(m, idx)
    THEN [err |-> "TypeError", val |-> PyList(<<>>)]
    ELSE [err |-> NoErr, val |-> PyList(<<>>)]

\* the getter line of a field member (lines 347-373)
FieldGetter(mb, m, enums) ==
    LET raw == getField(m, mb.number)
        conv == IF raw.err # NoErr THEN [err |-> raw.err, val |-> PyNone]
                ELSE IF mb.conv = "bool" THEN _bool(raw.val)
                ELSE Convert(mb.conv, raw.val)
        base == IF conv.err # NoErr \/ mb.enum = None THEN conv
                ELSE EnumCall(enums, mb.enum, conv.val)
    IN IF mb.optional
       THEN IF isSetField(m, mb.number) THEN base
            ELSE [err |-> NoErr, val |-> PyNone]
       ELSE base

Getter(mb, m, enums) ==
    IF mb.kind = "field" THEN FieldGetter(mb, m, enums)
    ELSE get_group_by(m, mb.number, mb.ids_g, mb.sub_ns)

RECURSIVE from_raw_members(_, _, _, _, _)
\* acc = [err, rec]: the getter lines in item order, then cls(...)
from_raw_members(cls, m, enums, acc, i) ==
    IF acc.err # NoErr \/ i > Len(cls.members) THEN acc
    ELSE LET mb == cls.members[i]
             g == Getter(mb, m, enums)
         IN IF g.err # NoErr THEN [acc EXCEPT !.err = g.err]
            ELSE from_raw_members(cls, m, enums,
                     [acc EXCEPT !.rec = (mb.s_item_name :> g.val) @@ @], i + 1)

from_raw(cls, m, enums) ==
    from_raw_members(cls, m, enums, [err |-> NoErr, rec |-> <<>>], 1)

\* the text a field constructor stores (line 367); an enum member gives its
\* value (line 355)
FieldText(mb, value) ==
    LET x == IF mb.enum # None THEN value.v ELSE value IN
    IF mb.utc THEN x.v
    ELSE IF mb.conv = "bool" THEN (IF x.v THEN "Y" ELSE "N")
    ELSE IF mb.conv \in {"int", "float"} THEN ToString(x.v)
    ELSE x.v

SubClass(cls, sub_ns) ==
    cls.sub[CHOOSE k \in 1..Len(cls.sub) : cls.sub[k].ns_name = sub_ns]

RECURSIVE to_raw(_, _)
RECURSIVE to_raw_members(_, _, _, _)
RECURSIVE to_raw_groups(_, _, _, _)

\* for g in self.<name>: m.addGroup(g.to_raw())
to_raw_groups(sub, entries, m, k) ==
    IF k > Len(entries) THEN m
    ELSE to_raw_groups(sub, entries, addGroup(m, to_raw(sub, entries[k])), k + 1)

\* the setter lines in item order (line 391)
to_raw_members(cls, rec, m, i) ==
    IF i > Len(cls.members) THEN m
    ELSE LET mb == cls.members[i]
             value == rec[mb.s_item_name]
             m1 == IF mb.kind = "field"
                   THEN IF mb.optional /\ value = PyNone THEN m
                        ELSE setField(m, mb.number, FieldText(mb, value))
                   ELSE to_raw_groups(SubClass(cls, mb.sub_ns), value.v, m, 1)
         IN to_raw_members(cls, rec, m1, i + 1)

to_raw(cls, rec) ==
    to_raw_members(cls, rec,
        IF Len(cls.ns_name) = 1 THEN View(cls.msgtype, 0, 0, <<>>)
        ELSE View(None, cls.id_g, cls.ids_g[1], cls.ids_g),
        1)

\* ---------------------------------------------------- the output directory
\* a directory is the sequence of its files [path, content], oldest first
HasPath(dir, path) == \E i \in 1..Len(dir) : dir[i].path = path
ReadPath(dir, path) ==
    dir[CHOOSE i \in 1..Len(dir) : dir[i].path = path].content

\* a variant that opens the file for appending
DirWrite_Append(dir, path, content) ==
    IF HasPath(dir, path)
    THEN [i \in 1..Len(dir) |->
             IF dir[i].path = path
             THEN [path |-> path,
                   content |-> [head |-> dir[i].content, tail |-> content]]
             ELSE dir[i]]
    ELSE Append(dir, [path |-> path, content |-> content])

\* with open(fpath, "w") as fh: fh.write(...): the file is created, or what
\* it held is replaced
DirWrite(dir, path, content) ==
    IF HasPath(dir, path)
    THEN [i \in 1..Len(dir) |->
             IF dir[i].path = path THEN [path |-> path, content |-> content]
             ELSE dir[i]]
    ELSE Append(dir, [path |-> path, content |-> content])

\* the files written[i], written[i + 1], ... put in the directory in order
RECURSIVE Flush(_, _, _)
Flush(dir, written, i) ==
    IF i > Len(written) THEN dir
    ELSE Flush(DirWrite(dir, written[i].path, written[i].content), written, i + 1)

\* the class object a name of the aggregating module is bound to (line 494:
\* from .<module> import <name>)
ClassNamed(fs, name) ==
    fs[CHOOSE i \in 1..Len(fs) :
          fs[i].kind = "class" /\ fs[i].content.ns_name = <<name>>].content

\* one call of a handler: the function called and the argument it was given
HandlerCall(func, kind, v) == [func |-> func, arg |-> [t |-> kind, v |-> v]]

\* a variant that fetches the named handler without asking whether the
\* object has it
crack_NoHasattr(obj, message, table, fs, enums) ==
    LET MsgType == message.msgtype
        hit == {k \in 1..Len(table) : table[k].code = MsgType}
    IN IF MsgType = None THEN [err |-> "FieldNotFound", calls |-> <<>>]
       ELSE IF hit # {}
       THEN LET e == table[CHOOSE k \in hit : TRUE]
                m == from_raw(ClassNamed(fs, e.cls), message, enums)
            IN IF m.err # NoErr THEN [err |-> m.err, calls |-> <<>>]
               ELSE IF e.handler \notin obj
               THEN [err |-> "AttributeError", calls |-> <<>>]
               ELSE [err |-> NoErr,
                     calls |-> <<HandlerCall(e.handler, "record", m.rec)>>]
       ELSE [err |-> NoErr,
             calls |-> <<HandlerCall("default", "message", message)>>]

\* crack (lines 548-562): obj is the set of attribute names of the caller's
\* object; the result is the exception raised, if any, and the handler calls
\* made, in order
crack(obj, message, table, fs, enums) ==
    LET MsgType == message.msgtype
        hit == {k \in 1..Len(table) : table[k].code = MsgType}
    IN IF MsgType = None THEN [err |-> "FieldNotFound", calls |-> <<>>]
       ELSE IF hit # {}
       THEN LET e == table[CHOOSE k \in hit : TRUE]
                m == from_raw(ClassNamed(fs, e.cls), message, enums)
            IN IF m.err # NoErr THEN [err |-> m.err, calls |-> <<>>]
               ELSE [err |-> NoErr,
                     calls |-> <<HandlerCall(
                         IF e.handler \in obj THEN e.handler ELSE "default",
                         "record", m.rec)>>]
       ELSE [err |-> NoErr,
             calls |-> <<HandlerCall("default", "message", message)>>]

\* ------------------------------------------------- the dictionaries explored
BaseFields ==
    << XFieldDef(1, "A", "STRING", <<>>),
       XFieldDef(2, "B", "INT", <<>>),
       XFieldDef(3, "G", "NUMINGROUP", <<>>),
       XFieldDef(4, "H", "NUMINGROUP", <<>>),
       XFieldDef(5, "E", "CHAR", << <<"1", "BUY">>, <<"2", "SELL">> >>) >>

\* a field name repeated under another number
DupNameFields ==
    << XFieldDef(1, "A", "STRING", <<>>), XFieldDef(2, "B", "INT", <<>>),
       XFieldDef(6, "A", "STRING", <<>>) >>
\* a field number repeated under another name
DupNumberFields ==
    << XFieldDef(1, "A", "STRING", <<>>), XFieldDef(1, "B", "INT", <<>>),
       XFieldDef(3, "G", "NUMINGROUP", <<>>) >>
\* an INT field with an enum literal that is no integer
BadEnumFields ==
    << XFieldDef(1, "A", "STRING", <<>>), XFieldDef(2, "B", "INT", <<>>),
       XFieldDef(3, "G", "NUMINGROUP", <<>>),
       XFieldDef(5, "E", "INT", << <<"1", "ONE">>, <<"x", "BAD">> >>) >>
\* a type that TYP_MAP does not hold
UnknownTypeFields ==
    << XFieldDef(1, "A", "BOGUS", <<>>), XFieldDef(2, "B", "INT", <<>>) >>

\* n enum values of one description
SameNames(n) == [i \in 1..n |-> <<ToString(i - 1), "X">>]
\* descriptions that meet after sanitizing or after prefixing
MixedNames ==
    << <<"0", "X">>, <<"1", "_X">>, <<"2", "X">>, <<"3", "1ST">>,
       <<"4", "_1ST">>, <<"5", "yield">> >>
\* the base fields with these enum values for E
EnumFields(enums) ==
    << XFieldDef(1, "A", "STRING", <<>>), XFieldDef(2, "B", "INT", <<>>),
       XFieldDef(3, "G", "NUMINGROUP", <<>>), XFieldDef(5, "E", "CHAR", enums) >>

FieldVariants ==
    {DupNameFields, DupNumberFields, BadEnumFields, UnknownTypeFields,
     EnumFields(SameNames(RetryLimit)), EnumFields(SameNames(RetryLimit + 1)),
     EnumFields(MixedNames)}

\* K holds a field and a group
CompsGroup ==
    << XCompDef("K", << XField("A", "N"),
                        XGroup("G", "N", << XField("B", "Y") >>) >>) >>
\* K refers to L; L holds a field and a group that nests a group
CompsNested ==
    << XCompDef("K", << XComp("L", "Y") >>),
       XCompDef("L", << XField("B", "N"),
                        XGroup("G", "N",
                               << XField("A", "Y"),
                                  XGroup("H", "N", << XField("B", "N") >>) >>) >>) >>
\* K holds a group without items
CompsEmptyGroup == << XCompDef("K", << XGroup("G", "N", <<>>) >>) >>
\* K refers to itself after a field
CompsSelf == << XCompDef("K", << XField("A", "Y"), XComp("K", "N") >>) >>
\* K holds an enumerated field
CompsEnum == << XCompDef("K", << XField("E", "Y") >>) >>
\* K defined twice
CompsDup == << XCompDef("K", << XField("A", "N") >>),
               XCompDef("K", << XField("B", "N") >>) >>

\* K holds required and optional fields and a group, interleaved
CompsMixed ==
    << XCompDef("K", << XField("B", "N"), XField("E", "Y"),
                        XGroup("G", "Y", << XField("B", "N"), XField("A", "Y") >>),
                        XField("A", "Y") >>) >>

\* K refers to itself before anything else
CompsSelfFirst == << XCompDef("K", << XComp("K", "N"), XField("A", "Y") >>) >>
\* K and L refer to each other and hold nothing else
CompsMutual == << XCompDef("K", << XComp("L", "N") >>),
                  XCompDef("L", << XComp("K", "N") >>) >>
\* K holds a group that refers to K
CompsGroupCycle ==
    << XCompDef("K", << XGroup("G", "N", << XComp("K", "N") >>) >>) >>

\* the component sections explored with one and with two messages
CompSecs == {<<>>, CompsGroup, CompsNested, CompsEmptyGroup, CompsSelf,
             CompsEnum, CompsDup}
\* the component sections explored with one message
SingleCompSecs == {CompsMixed, CompsSelfFirst, CompsMutual, CompsGroupCycle}

\* what a message element may hold
Palette ==
    { XField("A", "Y"), XField("B", "N"),
      XGroup("G", "N", << XField("B", "Y"),
                          XGroup("H", "N", << XField("A", "N") >>) >>),
      XComp("K", "N") }

Bodies == UNION {[1..n -> Palette] : n \in 0..MaxItems}

MsgNames == <<"M1", "M2">>
MsgTypes == <<"D", "8">>

\* the i-th message of a dictionary: its name, one of the first i type codes
Msgs(i) == {XMsg(MsgNames[i], MsgTypes[t], b) : t \in 1..i, b \in Bodies}

SingleMsgLists == {<<m>> : m \in Msgs(1)}
MsgLists == SingleMsgLists
            \cup {<<m1, m2>> : m1 \in Msgs(1), m2 \in Msgs(2)}

\* message sections used with the field-section variants
FixedMsgLists ==
    { << XMsg("M1", "D", << XField("A", "Y") >>),
         XMsg("m1", "8", << XField("B", "N") >>) >>,
      << XMsg("M1", "D", << XField("A", "Y"), XField("B", "N") >>),
         XMsg("M2", "8", << XComp("K", "N") >>) >>,
      << XMsg("M1", "D", << XField("A", "Y") >>),
         XMsg("M1", "8", << XField("B", "N") >>) >>,
      << XMsg("M1", "D", << XField("A", "Y"), XField("E", "N") >>) >> }

Docs ==
    {[fields |-> BaseFields, components |-> c, messages |-> m] :
        c \in CompSecs, m \in MsgLists}
    \cup {[fields |-> BaseFields, components |-> c, messages |-> m] :
        c \in SingleCompSecs, m \in SingleMsgLists}
    \cup {[fields |-> f, components |-> CompsGroup, messages |-> m] :
        f \in FieldVariants \cup {BaseFields}, m \in FixedMsgLists}

\* --------------------------------------------------------- records explored
RECURSIVE SeqsUpTo(_, _)
\* the sequences over S of length at most n
SeqsUpTo(S, n) ==
    IF n = 0 THEN {<<>>}
    ELSE LET shorter == SeqsUpTo(S, n - 1)
         IN shorter \cup {Append(q, x) : q \in shorter, x \in S}

EnumValues(enums, name) ==
    LET e == enums[CHOOSE i \in 1..Len(enums) : enums[i].name = name]
    IN {PyEnum(name, e.members[k].value) : k \in 1..Len(e.members)}

RECURSIVE RecordsOf(_, _)
RECURSIVE RecordsFrom(_, _, _)

\* the valid values of one member
ValuesOf(cls, mb, enums) ==
    IF mb.kind = "group"
    THEN {PyList(q) : q \in SeqsUpTo(RecordsOf(SubClass(cls, mb.sub_ns), enums),
                                     MaxEntries)}
    ELSE (IF mb.enum # None THEN EnumValues(enums, mb.enum)
          ELSE IF mb.conv = "str" THEN {PyStr("x")}
          ELSE IF mb.conv = "int" THEN {PyInt(7)}
          ELSE IF mb.conv = "float" THEN {PyFloat(2)}
          ELSE {PyBool(TRUE), PyBool(FALSE)})
         \cup (IF mb.optional THEN {PyNone} ELSE {})

RecordsFrom(cls, enums, i) ==
    IF i > Len(cls.members) THEN {<<>>}
    ELSE {(cls.members[i].s_item_name :> v) @@ r :
             v \in ValuesOf(cls, cls.members[i], enums),
             r \in RecordsFrom(cls, enums, i + 1)}

\* the records of a class holding valid values for every required field and
\* any subset of the optional ones
RecordsOf(cls, enums) == RecordsFrom(cls, enums, 1)

RECURSIVE Nested(_)
\* an emitted class and the classes nested in it
Nested(cls) == {cls} \cup UNION {Nested(cls.sub[k]) : k \in 1..Len(cls.sub)}

EmittedClasses(fs) ==
    UNION {Nested(fs[i].content) : i \in {j \in 1..Len(fs) : fs[j].kind = "class"}}

EmittedEnums(fs) ==
    fs[CHOOSE i \in 1..Len(fs) : fs[i].kind = "enums"].content

\* ------------------------------------------------------------------- state
\* pc is the step of mainfun the run is at; a raised exception is kept in err
\* and ends the run where it stands
lower(name) == IF name \in DOMAIN SnakeNames THEN SnakeNames[name] ELSE name

Idle == [phase |-> "idle", cls |-> NoClass, rec |-> <<>>, view |-> NoView,
         dropped |-> 0, out |-> [err |-> NoErr, rec |-> <<>>],
         obj |-> {}, message |-> NoView,
         cracked |-> [err |-> NoErr, calls |-> <<>>]]

\* the handler attributes a caller's object may have
Handlers == {"on_" \o MsgNames[i] : i \in 1..Len(MsgNames)}
\* a type code no message of the dictionaries explored carries
UnknownCode == "X"

\* what an earlier run on another dictionary left in the output directory
StaleDir ==
    << [path |-> "m1.py", content |-> "stale"],
       [path |-> "old.py", content |-> "stale"],
       [path |-> "__init__.py", content |-> "stale"] >>

\* the directories a run may start in
StartDirs(d) ==
    IF d.messages \in FixedMsgLists THEN {<<>>, StaleDir} ELSE {<<>>}

\* no run of mainfun has ended yet
NoRun == [pc |-> "fields", err |-> NoErr, map_classes |-> <<>>,
          files |-> <<>>, dir |-> <<>>]

\* disk: the output directory, which run of mainfun is under way, and what the
\* first run ended with
FirstRun(dir) == [run |-> 1, dir |-> dir, first |-> NoRun]

Init ==
    /\ doc \in Docs
    /\ pc = "fields"
    /\ err = NoErr
    /\ map_fields = <<>>
    /\ map_components = <<>>
    /\ map_classes = <<>>
    /\ next_oid = 1
    /\ ci = 1
    /\ modules = <<>>
    /\ files = <<>>
    /\ enums_out = <<>>
    /\ rt = Idle
    /\ disk \in {FirstRun(dir) : dir \in StartDirs(doc)}

\* mainfun, line 595
TraverseFields ==
    /\ pc = "fields"
    /\ err = NoErr
    /\ LET r == traverse_fields(doc) IN
        /\ map_fields' = r.fields
        /\ err' = r.err
        /\ pc' = IF r.err = NoErr THEN "components" ELSE pc
    /\ UNCHANGED <<doc, map_components, map_classes, next_oid, ci, modules,
                   files, enums_out, rt, disk>>

\* mainfun, line 596
TraverseComponents ==
    /\ pc = "components"
    /\ err = NoErr
    /\ LET r == traverse_components(doc) IN
        /\ map_components' = r.comps
        /\ next_oid' = r.oid
        /\ err' = r.err
        /\ pc' = IF r.err = NoErr THEN "classes" ELSE pc
    /\ UNCHANGED <<doc, map_fields, map_classes, ci, modules, files,
                   enums_out, rt, disk>>

\* mainfun, line 597
TraverseClasses ==
    /\ pc = "classes"
    /\ err = NoErr
    /\ LET r == traverse_classes(doc, map_components, next_oid) IN
        /\ map_classes' = r.classes
        /\ next_oid' = r.oid
        /\ err' = r.err
        /\ pc' = IF r.err = NoErr THEN "write" ELSE pc
    /\ UNCHANGED <<doc, map_fields, map_components, ci, modules, files,
                   enums_out, rt, disk>>

\* write_to_files, lines 580-584: one turn of the loop over map_classes
WriteClass ==
    /\ pc = "write"
    /\ err = NoErr
    /\ ci <= Len(map_classes)
    /\ LET class_meta == map_classes[ci] IN
       IF class_meta.msgtype = None
       THEN /\ ci' = ci + 1
            /\ UNCHANGED <<pc, err, files, modules>>
       ELSE IF Len(class_meta.ns_name) # 1
       THEN /\ err' = "AssertionError"
            /\ UNCHANGED <<pc, ci, files, modules>>
       ELSE LET w == write_class_to_file(lower(Last(class_meta.ns_name)) \o ".py",
                                         class_meta, map_classes, map_fields, files)
            IN /\ err' = w.err
               /\ files' = w.files
               /\ IF w.err # NoErr
                  THEN UNCHANGED <<pc, ci, modules>>
                  ELSE /\ modules' = ModulesSet(modules, class_meta.msgtype,
                                                Last(class_meta.ns_name))
                       /\ ci' = ci + 1
                       /\ pc' = pc
    /\ disk' = [disk EXCEPT !.dir = Flush(@, files', Len(files) + 1)]
    /\ UNCHANGED <<doc, map_fields, map_components, map_classes, next_oid,
                   enums_out, rt>>

\* write_to_files, line 586
WriteEnums ==
    /\ pc = "write"
    /\ err = NoErr
    /\ ci > Len(map_classes)
    /\ LET w == write_enums_to_file("_enums.py", map_fields, files) IN
        /\ err' = w.err
        /\ files' = w.files
        /\ enums_out' = w.out
        /\ pc' = IF w.err = NoErr THEN "init" ELSE pc
    /\ disk' = [disk EXCEPT !.dir = Flush(@, files', Len(files) + 1)]
    /\ UNCHANGED <<doc, map_fields, map_components, map_classes, next_oid, ci,
                   modules, rt>>

\* write_to_files, line 587
WriteInit ==
    /\ pc = "init"
    /\ err = NoErr
    /\ files' = write_init_to_file("__init__.py", enums_out, BeginString,
                                   modules, files)
    /\ pc' = "done"
    /\ disk' = [disk EXCEPT !.dir = Flush(@, files', Len(files) + 1)]
    /\ UNCHANGED <<doc, err, map_fields, map_components, map_classes, next_oid,
                   ci, modules, enums_out, rt>>

\* the emitted to_raw of a class, on a valid record
ToRaw ==
    /\ pc = "done"
    /\ rt.phase = "idle"
    /\ \E cls \in EmittedClasses(files) :
        \E rec \in RecordsOf(cls, EmittedEnums(files)) :
            rt' = [Idle EXCEPT !.phase = "encoded", !.cls = cls, !.rec = rec,
                               !.view = to_raw(cls, rec)]
    /\ UNCHANGED <<doc, pc, err, map_fields, map_components, map_classes,
                   next_oid, ci, modules, files, enums_out, disk>>

\* the view as it arrives without one of its scalar tags
DropTag ==
    /\ pc = "done"
    /\ rt.phase = "encoded"
    /\ rt.dropped = 0
    /\ \E i \in 1..Len(rt.view.log) :
        /\ rt.view.log[i].op = "setField"
        /\ rt' = [rt EXCEPT
                     !.dropped = rt.view.log[i].tag,
                     !.view.log = SelectSeq(@, LAMBDA o : o.tag # rt.view.log[i].tag)]
    /\ UNCHANGED <<doc, pc, err, map_fields, map_components, map_classes,
                   next_oid, ci, modules, files, enums_out, disk>>

\* the emitted from_raw of the class, on the view
FromRaw ==
    /\ pc = "done"
    /\ rt.phase = "encoded"
    /\ rt' = [rt EXCEPT !.phase = "decoded",
                        !.out = from_raw(rt.cls, rt.view, EmittedEnums(files))]
    /\ UNCHANGED <<doc, pc, err, map_fields, map_components, map_classes,
                   next_oid, ci, modules, files, enums_out, disk>>

\* the emitted crack on an incoming message: the view of a message class as
\* it arrived, or a message of a type code the dictionary does not hold
Crack ==
    /\ pc = "done"
    /\ rt.phase = "encoded"
    /\ Len(rt.cls.ns_name) = 1
    /\ \E obj \in SUBSET Handlers, code \in {rt.view.msgtype, UnknownCode} :
        LET message == [rt.view EXCEPT !.msgtype = code] IN
        rt' = [rt EXCEPT
                  !.phase = "cracked", !.obj = obj, !.message = message,
                  !.cracked = crack(obj, message, Last(files).content.MESSAGES,
                                    files, EmittedEnums(files))]
    /\ UNCHANGED <<doc, pc, err, map_fields, map_components, map_classes,
                   next_oid, ci, modules, files, enums_out, disk>>

\* mainfun is run once more on the same dictionary and the same output
\* directory: every registry is a dict created by the call (lines 168, 212,
\* 295, 579), the directory is kept as it is (lines 573-577)
Rerun ==
    /\ disk.run = 1
    /\ pc = "done" \/ err # NoErr
    /\ rt.phase = "idle"
    /\ disk' = [run |-> 2, dir |-> disk.dir,
                first |-> [pc |-> pc, err |-> err, map_classes |-> map_classes,
                           files |-> files, dir |-> disk.dir]]
    /\ pc' = "fields"
    /\ err' = NoErr
    /\ map_fields' = <<>>
    /\ map_components' = <<>>
    /\ map_classes' = <<>>
    /\ next_oid' = 1
    /\ ci' = 1
    /\ modules' = <<>>
    /\ files' = <<>>
    /\ enums_out' = <<>>
    /\ UNCHANGED <<doc, rt>>

Next ==
    \/ TraverseFields
    \/ TraverseComponents
    \/ TraverseClasses
    \/ WriteClass
    \/ WriteEnums
    \/ WriteInit
    \/ ToRaw
    \/ DropTag
    \/ FromRaw
    \/ Crack
    \/ Rerun

Spec == Init /\ [][Next]_vars

\* the dictionaries the emitted code is run on: the base fields, with or
\* without the component K, one message of any body or two messages of at
\* most one item each
RtDocs ==
    {d \in Docs :
        /\ d.fields = BaseFields
        /\ d.components \in {<<>>, CompsGroup}
        /\ Len(d.messages) = 2 =>
               \A i \in 1..2 : Len(d.messages[i].body) <= 1}

RtInit ==
    /\ doc \in RtDocs
    /\ pc = "fields"
    /\ err = NoErr
    /\ map_fields = <<>>
    /\ map_components = <<>>
    /\ map_classes = <<>>
    /\ next_oid = 1
    /\ ci = 1
    /\ modules = <<>>
    /\ files = <<>>
    /\ enums_out = <<>>
    /\ rt = Idle
    /\ disk \in {FirstRun(dir) : dir \in StartDirs(doc)}

RuntimeSpec == RtInit /\ [][Next]_vars

\* mainfun alone: one run of the compiler, without the emitted code being run
Compile ==
    \/ TraverseFields
    \/ TraverseComponents
    \/ TraverseClasses
    \/ WriteClass
    \/ WriteEnums
    \/ WriteInit
    \/ Rerun

CompileSpec == Init /\ [][Compile]_vars

\* ===================================================================
\* What the claims are stated with
\* ===================================================================
\* the expansion has completed without an error
Expanded == pc \in {"write", "init", "done"}

Distinct(q) == \A i, j \in 1..Len(q) : i # j => q[i] # q[j]
Names(q) == [i \in 1..Len(q) |-> q[i].name]

\* an entry a class is expected to hold: owner is the qualified name of the
\* component definition it comes from (<<>> when declared in the element
\* itself, and then body holds the element's children)
Entry(name, kind, required, owner, body) ==
    [name |-> name, kind |-> kind, required |-> required,
     owner |-> owner, body |-> body]

RECURSIVE ComponentEntries(_, _, _, _)
\* the fields and groups of a component definition in definition order, a
\* referenced component's entries standing where the reference stands
ComponentEntries(cm, comps, fuel, i) ==
    IF i > Len(cm.items) \/ fuel = 0 THEN <<>>
    ELSE LET it == cm.items[i]
             here == IF it.kind = "component"
                     THEN IF HasKey(comps, <<it.name>>)
                          THEN ComponentEntries(Lookup(comps, <<it.name>>),
                                                comps, fuel - 1, 1)
                          ELSE <<>>
                     ELSE <<Entry(it.name, it.kind, it.required, cm.ns_name, <<>>)>>
         IN here \o ComponentEntries(cm, comps, fuel, i + 1)

RECURSIVE DirectEntries(_, _, _)
\* the entries of a message or group element
DirectEntries(body, comps, i) ==
    IF i > Len(body) THEN <<>>
    ELSE LET ch == body[i]
             here == IF ch.tag = "component"
                     THEN IF HasKey(comps, <<ch.name>>)
                          THEN ComponentEntries(Lookup(comps, <<ch.name>>),
                                                comps, MaxDepth, 1)
                          ELSE <<>>
                     ELSE <<Entry(ch.name, ch.tag, ch.required, <<>>, ch.body)>>
         IN here \o DirectEntries(body, comps, i + 1)

\* the registry key of the definition of a group found in a component
GroupKey(e) == e.owner \o <<e.name>>

\* the entries of the class of group entry e
SubEntries(e, comps) ==
    IF e.owner = <<>> THEN DirectEntries(e.body, comps, 1)
    ELSE IF HasKey(comps, GroupKey(e))
    THEN ComponentEntries(Lookup(comps, GroupKey(e)), comps, MaxDepth, 1)
    ELSE <<>>

RECURSIVE ClassMatches(_, _, _, _, _)
\* the class at `path` holds exactly `entries`, in order, and so on below
ClassMatches(path, entries, classes, comps, fuel) ==
    /\ fuel > 0
    /\ HasKey(classes, path)
    /\ LET c == Lookup(classes, path) IN
        /\ Len(c.items) = Len(entries)
        /\ \A i \in 1..Len(entries) :
            /\ c.items[i].name = entries[i].name
            /\ c.items[i].kind = entries[i].kind
            /\ c.items[i].required = entries[i].required
    /\ \A i \in 1..Len(entries) :
        entries[i].kind = "group" =>
            ClassMatches(path \o <<entries[i].name>>,
                         SubEntries(entries[i], comps), classes, comps, fuel - 1)

RECURSIVE TreeSize(_, _, _)
\* the number of classes a class with these entries stands for
RECURSIVE SumSizes(_, _, _, _)
SumSizes(entries, comps, fuel, i) ==
    IF i > Len(entries) THEN 0
    ELSE (IF entries[i].kind = "group"
          THEN TreeSize(SubEntries(entries[i], comps), comps, fuel - 1)
          ELSE 0)
         + SumSizes(entries, comps, fuel, i + 1)
TreeSize(entries, comps, fuel) ==
    IF fuel = 0 THEN 1 ELSE 1 + SumSizes(entries, comps, fuel, 1)

RECURSIVE SumMessages(_, _, _)
SumMessages(messages, comps, i) ==
    IF i > Len(messages) THEN 0
    ELSE TreeSize(DirectEntries(messages[i].body, comps, 1), comps, MaxDepth)
         + SumMessages(messages, comps, i + 1)

RECURSIVE CollisionFree(_, _, _)
\* no two entries of one class share a name, in the class and below it
CollisionFree(entries, comps, fuel) ==
    /\ Distinct(Names(entries))
    /\ fuel > 0 =>
        \A i \in 1..Len(entries) :
            entries[i].kind = "group" =>
                CollisionFree(SubEntries(entries[i], comps), comps, fuel - 1)

RECURSIVE DirectGroupsScoped(_, _, _)
\* every group element below `body` has its class under the class of the
\* element that declares it
DirectGroupsScoped(path, body, classes) ==
    \A i \in 1..Len(body) :
        body[i].tag = "group" =>
            /\ HasKey(classes, path \o <<body[i].name>>)
            /\ Lookup(classes, path \o <<body[i].name>>).msgtype = None
            /\ DirectGroupsScoped(path \o <<body[i].name>>, body[i].body, classes)

RECURSIVE PlainBody(_)
\* the element holds fields and groups only, no two of one name, at any depth
PlainBody(body) ==
    /\ Distinct(Names(body))
    /\ \A i \in 1..Len(body) :
        /\ body[i].tag \in {"field", "group"}
        /\ body[i].tag = "group" => PlainBody(body[i].body)

MessageNames == {doc.messages[i].name : i \in 1..Len(doc.messages)}
Declares(m, kind, name) ==
    \E i \in 1..Len(m.body) : m.body[i].tag = kind /\ m.body[i].name = name

RootClasses == {i \in 1..Len(map_classes) : Len(map_classes[i].ns_name) = 1}
Oids(items) == {items[i].oid : i \in 1..Len(items)}

\* a literal of an enumerated field that its primitive type does not convert
BadLiteral(d) ==
    \E i \in 1..Len(d.fields) :
        /\ InTypMap(d.fields[i].type)
        /\ \E k \in 1..Len(d.fields[i].enums) :
            typefun(TYP_MAP(d.fields[i].type), d.fields[i].enums[k][1]).err # NoErr

FieldMembers(cls) ==
    {i \in 1..Len(cls.members) : cls.members[i].kind = "field"}
AbsentRequired(cls, m) ==
    {i \in FieldMembers(cls) :
        ~cls.members[i].optional /\ ~isSetField(m, cls.members[i].number)}
AbsentOptional(cls, m) ==
    {i \in FieldMembers(cls) :
        cls.members[i].optional /\ ~isSetField(m, cls.members[i].number)}
HoldsEntries(rec, cls) ==
    \E i \in 1..Len(cls.members) :
        cls.members[i].kind = "group" /\ Len(rec[cls.members[i].s_item_name].v) > 0

\* ===================================================================
\* The claims
\* ===================================================================

\* C1: round trip. Decoding the view a valid record encodes to gives the
\* record back, field for field, nested group entries included.
C1_RoundTrip ==
    (rt.phase = "decoded" /\ rt.dropped = 0) =>
        (rt.out.err = NoErr /\ rt.out.rec = rt.rec)

\* C2: component inlining. After a successful expansion every message class
\* holds, in definition order, its own fields and groups with the fields and
\* groups of every component it refers to (transitively) in the reference's
\* place; a group found in a component has its class under the class it was
\* inlined into, holding the entries of the registry entry
\* <owning component>.<group>; and no class exists besides these.
C2_Inlining ==
    Expanded =>
        /\ \A i \in 1..Len(doc.messages) :
            ClassMatches(<<doc.messages[i].name>>,
                         DirectEntries(doc.messages[i].body, map_components, 1),
                         map_classes, map_components, MaxDepth)
        /\ Len(map_classes) = SumMessages(doc.messages, map_components, 1)

\* C2 witness: two messages refer to K, which refers to L, whose group G nests
\* group H; the expansion succeeded and gave each message its own G and G.H
C2_Witness ==
    /\ Expanded
    /\ doc.components = CompsNested
    /\ Len(doc.messages) = 2
    /\ \A i \in 1..2 : Declares(doc.messages[i], "component", "K")
    /\ HasKey(map_classes, <<"M1", "G", "H">>)
    /\ HasKey(map_classes, <<"M2", "G", "H">>)

\* C3: a component with a group, referenced from two messages, expands into
\* two group classes at distinct paths that share no mutable object with each
\* other or with the component definition: no Item object is held by two
\* containers.
C3_NoSharedItems ==
    (/\ Expanded
     /\ doc.components = CompsGroup
     /\ Len(doc.messages) = 2
     /\ \A i \in 1..2 : Declares(doc.messages[i], "component", "K")) =>
        /\ HasKey(map_classes, <<"M1", "G">>)
        /\ HasKey(map_classes, <<"M2", "G">>)
        /\ \A i, j \in 1..Len(map_classes) :
            i # j => Oids(map_classes[i].items) \cap Oids(map_classes[j].items) = {}
        /\ \A i \in 1..Len(map_classes), k \in 1..Len(map_components) :
            Oids(map_classes[i].items) \cap Oids(map_components[k].items) = {}

\* C4: group scoping. A group declared in a message or group element has its
\* class at the declaring class's path + its name, never in the global
\* namespace; a duplicate-class error is raised only when two messages share
\* a name; and messages of distinct names that declare only fields and
\* groups (same-named groups in sibling messages included) expand without
\* an error.
C4_GroupScoping ==
    /\ Expanded =>
        /\ \A i \in 1..Len(doc.messages) :
            DirectGroupsScoped(<<doc.messages[i].name>>, doc.messages[i].body,
                               map_classes)
        /\ \A i \in RootClasses : map_classes[i].ns_name[1] \in MessageNames
    /\ err \in {"class duplicated", "duplicated class in expanding"} =>
        ~Distinct(Names(doc.messages))
    /\ (/\ pc = "classes"
        /\ Distinct(Names(doc.messages))
        /\ \A i \in 1..Len(doc.messages) : PlainBody(doc.messages[i].body)) =>
        err = NoErr

\* C4 witness: two messages each declare group G; both classes exist
C4_Witness ==
    /\ Expanded
    /\ Len(doc.messages) = 2
    /\ \A i \in 1..2 : Declares(doc.messages[i], "group", "G")
    /\ HasKey(map_classes, <<"M1", "G">>)
    /\ HasKey(map_classes, <<"M2", "G">>)
    /\ HasKey(map_classes, <<"M1", "G", "H">>)

\* C5: in a dictionary that compiled, no two message classes share a type
\* code, and every message class is in the registry under its own code.
C5_UniqueTypeCodes ==
    pc = "done" =>
        /\ \A i, j \in RootClasses :
            i # j => map_classes[i].msgtype # map_classes[j].msgtype
        /\ \A i \in RootClasses :
            \E k \in 1..Len(Last(files).content.MESSAGES) :
                /\ Last(files).content.MESSAGES[k].code = map_classes[i].msgtype
                /\ Last(files).content.MESSAGES[k].cls = map_classes[i].ns_name[1]

\* C6: once the field registry has loaded, field names are pairwise distinct
\* and field numbers are pairwise distinct.
C6_FieldsUnique ==
    pc # "fields" =>
        /\ Distinct(Names(map_fields))
        /\ Distinct([i \in 1..Len(map_fields) |-> map_fields[i].number])

\* C7: no partial output. When the run has failed, no file has been written.
C7_NoPartialOutput == err # NoErr => files = <<>>

\* C8: a dictionary with an enum literal that does not convert under its
\* field's type is rejected while the field registry loads: the run never
\* gets past that step.
C8_EnumsCheckedAtLoad == BadLiteral(doc) => pc = "fields"

\* C9: name collisions are fatal. After a successful expansion no class was
\* given two entries of one name, by declaration or by inlining at any depth,
\* and no class holds two items of one name.
C9_CollisionsFatal ==
    Expanded =>
        /\ \A i \in 1..Len(doc.messages) :
            CollisionFree(DirectEntries(doc.messages[i].body, map_components, 1),
                          map_components, MaxDepth)
        /\ \A i \in 1..Len(map_classes) : Distinct(Names(map_classes[i].items))

\* C9 witness: the expansion was aborted while inlining a component whose
\* field the class already declared
C9_Witness ==
    /\ pc = "classes"
    /\ err = "item.name in class_meta.items"
    /\ doc.components = CompsGroup
    /\ doc.messages[1].body = <<XField("A", "Y"), XComp("K", "N")>>

\* C10: decoding a view that lacks the tag of a required field fails with
\* the missing-field error; decoding a view that lacks only tags of optional
\* fields succeeds, gives None for them and the record's value for the rest.
C10_RequiredEnforced ==
    rt.phase = "decoded" =>
        IF AbsentRequired(rt.cls, rt.view) # {}
        THEN rt.out.err = "FieldNotFound"
        ELSE AbsentOptional(rt.cls, rt.view) # {} =>
                /\ rt.out.err = NoErr
                /\ \A i \in 1..Len(rt.cls.members) :
                    LET n == rt.cls.members[i].s_item_name IN
                    rt.out.rec[n] = IF i \in AbsentOptional(rt.cls, rt.view)
                                    THEN PyNone ELSE rt.rec[n]

\* the calls that write a scalar field, in the order they were made
ScalarOps(m) == SelectSeq(m.log, LAMBDA o : o.op = "setField")
\* the calls that append an entry of the group counted by `tag`
GroupOps(m, tag) ==
    SelectSeq(m.log, LAMBDA o : o.op = "addGroup" /\ o.tag = tag)

RECURSIVE PresentScalars(_, _, _)
\* the field members of cls that rec holds a value for, in declared item order
PresentScalars(cls, rec, i) ==
    IF i > Len(cls.members) THEN <<>>
    ELSE LET mb == cls.members[i]
             here == IF mb.kind = "field" /\ rec[mb.s_item_name] # PyNone
                     THEN <<[tag |-> mb.number,
                             val |-> FieldText(mb, rec[mb.s_item_name])]>>
                     ELSE <<>>
         IN here \o PresentScalars(cls, rec, i + 1)

\* every scalar write of the view was made before its first group entry
ScalarsBeforeGroups(m) ==
    \A i, j \in 1..Len(m.log) :
        (m.log[i].op = "addGroup" /\ m.log[j].op = "setField") => j < i

\* the scalar writes are exactly the present fields, in declared item order
ScalarsInItemOrder(cls, rec, m) ==
    [i \in 1..Len(ScalarOps(m)) |->
        [tag |-> ScalarOps(m)[i].tag, val |-> ScalarOps(m)[i].val]]
    = PresentScalars(cls, rec, 1)

\* each group's entries were appended in record order, one per record entry
EntriesInRecordOrder(cls, rec, m) ==
    \A i \in 1..Len(cls.members) :
        cls.members[i].kind = "group" =>
            LET entries == rec[cls.members[i].s_item_name].v
                ops == GroupOps(m, cls.members[i].number)
            IN /\ Len(ops) = Len(entries)
               /\ \A k \in 1..Len(ops) :
                    ScalarsInItemOrder(SubClass(cls, cls.members[i].sub_ns),
                                       entries[k], ops[k].sub)

\* C11: encode write order. to_raw writes the present scalar fields in the
\* class's declared item order, writes nothing for an absent optional field,
\* and appends the entries of every group, in record order, only after all
\* scalar fields of the class have been written, wherever the group item
\* stands in the item list.
C11_WriteOrder ==
    (rt.phase = "encoded" /\ rt.dropped = 0) =>
        /\ ScalarsInItemOrder(rt.cls, rt.rec, rt.view)
        /\ EntriesInRecordOrder(rt.cls, rt.rec, rt.view)
        /\ ScalarsBeforeGroups(rt.view)

\* the registry entry of a type code, as the aggregating module holds it
Registered(code) ==
    {k \in 1..Len(Last(files).content.MESSAGES) :
        Last(files).content.MESSAGES[k].code = code}

\* C12: dispatch. crack invokes exactly one handler exactly once for every
\* incoming message: for a type code in the registry, the handler
\* on_<class name> of the caller's object when the object has it, the default
\* handler otherwise, with the decoded record; for a type code not in the
\* registry, the default handler with the undecoded message.
C12_Dispatch ==
    rt.phase = "cracked" =>
        /\ Len(rt.cracked.calls) = 1
        /\ LET call == rt.cracked.calls[1]
               hit == Registered(rt.message.msgtype)
               e == Last(files).content.MESSAGES[CHOOSE k \in hit : TRUE]
           IN IF hit # {}
              THEN /\ e.handler = "on_" \o e.cls
                   /\ call.func = IF e.handler \in rt.obj THEN e.handler
                                  ELSE "default"
                   /\ call.arg.t = "record"
              ELSE call = HandlerCall("default", "message", rt.message)

\* C12 as amended: crack invokes at most one handler, at most once. For a
\* type code not in the registry it invokes the default handler with the
\* undecoded message. For a type code in the registry it decodes the message
\* with the registered class: when the decode succeeds it passes the decoded
\* record to on_<class name> of the caller's object if the object has it and
\* to the default handler otherwise; when the decode raises, crack raises the
\* same error and invokes no handler.
C12_DispatchDecoded ==
    rt.phase = "cracked" =>
        LET hit == Registered(rt.message.msgtype)
            e == Last(files).content.MESSAGES[CHOOSE k \in hit : TRUE]
            d == from_raw(ClassNamed(files, e.cls), rt.message, EmittedEnums(files))
        IN /\ Len(rt.cracked.calls) <= 1
           /\ IF hit = {}
              THEN rt.cracked = [err |-> NoErr,
                                 calls |-> <<HandlerCall("default", "message",
                                                         rt.message)>>]
              ELSE IF d.err # NoErr
              THEN rt.cracked = [err |-> d.err, calls |-> <<>>]
              ELSE /\ e.handler = "on_" \o e.cls
                   /\ rt.cracked =
                        [err |-> NoErr,
                         calls |-> <<HandlerCall(
                             IF e.handler \in rt.obj THEN e.handler ELSE "default",
                             "record", d.rec)>>]

\* C12 witness: a message of M2 arrived whole at an object that has on_M2 and
\* lacks on_M1, and on_M2 was called once with the record that was encoded
C12_Witness ==
    /\ rt.phase = "cracked"
    /\ rt.dropped = 0
    /\ rt.cls.ns_name = <<"M2">>
    /\ rt.obj = {"on_M2"}
    /\ rt.cracked.calls = <<HandlerCall("on_M2", "record", rt.rec)>>

\* the name an item has in the emitted record
EmittedName(name) == valid_ident(camel_to_sname(name))

RequiredField(it) == it.kind = "field" /\ it.required = "Y"

\* the required field items of a class in item order, then its other items
\* in item order
RequiredFirst(items) ==
    SelectSeq(items, RequiredField)
    \o SelectSeq(items, LAMBDA it : ~RequiredField(it))

\* C13: emitted record field order. In the record emitted for a class, at any
\* nesting depth, the required field items come first, in the order of the
\* class's item list, and the optional fields and the group items follow, in
\* the order of the class's item list.
C13_FieldOrder ==
    \A cls \in EmittedClasses(files) :
        LET want == RequiredFirst(Lookup(map_classes, cls.ns_name).items)
        IN [i \in 1..Len(cls.s_fields) |-> cls.s_fields[i].s_item_name]
           = [i \in 1..Len(want) |-> EmittedName(want[i].name)]

\* C13 witness: M1 inlines K, whose items are B (optional), E (required),
\* G (a group marked required) and A (required); the emitted record M1 lists
\* e, a, b, g and the record M1.G lists a, b
C13_Witness ==
    /\ doc.components = CompsMixed
    /\ \E i \in 1..Len(files) :
        /\ files[i].kind = "class"
        /\ files[i].content.ns_name = <<"M1">>
        /\ Names(Lookup(map_classes, <<"M1">>).items) = <<"B", "E", "G", "A">>
        /\ [k \in 1..4 |-> files[i].content.s_fields[k].s_item_name]
           = <<"e", "a", "b", "g">>
        /\ [k \in 1..2 |-> files[i].content.sub[1].s_fields[k].s_item_name]
           = <<"a", "b">>

RECURSIVE Prefixed(_, _)
\* the name with k copies of the prefix "_" before it
Prefixed(k, name) == IF k = 0 THEN name ELSE "_" \o Prefixed(k - 1, name)

Prefixes == 0..(RetryLimit - 1)

\* the enumerated fields of the registry
EnumFieldsOf(fields) == {i \in 1..Len(fields) : Len(fields[i].enums) > 0}

\* the materialized type of a field
EnumNamed(enums, name) ==
    enums[CHOOSE i \in 1..Len(enums) : enums[i].name = name]

\* member i of the type carries the sanitized description of value i behind
\* the fewest prefixes that keep it apart from the members before it
FewestPrefixes(fm, members, i) ==
    LET earlier == {members[j].name : j \in 1..(i - 1)}
        base == valid_ident(fm.enums[i][2])
    IN \E k \in Prefixes :
        /\ members[i].name = Prefixed(k, base)
        /\ members[i].name \notin earlier
        /\ \A j \in 0..(k - 1) : Prefixed(j, base) \in earlier

\* value i of the field has at least RetryLimit values of its own description
\* before it: every name the loop may try is taken
NeedsMore(fm) ==
    \E i \in 1..Len(fm.enums) :
        Cardinality({j \in 1..(i - 1) : fm.enums[j][2] = fm.enums[i][2]})
            >= RetryLimit

\* every name the loop may try for value i is one an earlier value may hold
AllTaken(fm) ==
    \E i \in 1..Len(fm.enums) :
        \A k \in Prefixes :
            \E j \in 1..(i - 1), k2 \in Prefixes :
                Prefixed(k, valid_ident(fm.enums[i][2]))
                    = Prefixed(k2, valid_ident(fm.enums[j][2]))

EnumsFile == {i \in 1..Len(files) : files[i].kind = "enums"}
CollisionError == "WTF: enums with same name"

\* C14: enum name deduplication. When the enum module is written, every
\* enumerated field has a type with one member per value, the member names
\* pairwise distinct, each the sanitized description behind the fewest
\* prefixes "_" (at most RetryLimit - 1 = 9) that make it new. A field with a
\* value that needs more stops the run in the materializer: no enum module
\* is written, and the error is the name-collision error; that error is
\* raised only when all ten names a value may take are used up.
C14_EnumNames ==
    /\ \A f \in EnumsFile :
        \A i \in EnumFieldsOf(map_fields) :
            LET fm == map_fields[i]
                members == EnumNamed(files[f].content, fm.name).members
            IN /\ Len(members) = Len(fm.enums)
               /\ Distinct(Names(members))
               /\ \A k \in 1..Len(members) : FewestPrefixes(fm, members, k)
    /\ (\E i \in EnumFieldsOf(map_fields) : NeedsMore(map_fields[i])) =>
        /\ EnumsFile = {}
        /\ pc \notin {"init", "done"}
        /\ (pc = "write" /\ ci > Len(map_classes) /\ err # NoErr) =>
               err = CollisionError
    /\ err = CollisionError =>
        /\ pc = "write"
        /\ \E i \in EnumFieldsOf(map_fields) : AllTaken(map_fields[i])

\* C14 witness: ten values of one description were materialized, the last
\* behind nine prefixes
C14_Witness ==
    /\ doc.fields = EnumFields(SameNames(RetryLimit))
    /\ \E f \in EnumsFile :
        LET members == EnumNamed(files[f].content, "E").members
        IN /\ Len(members) = RetryLimit
           /\ members[RetryLimit].name = Prefixed(RetryLimit - 1, "X")

\* C14 witness of the abort: eleven values of one description end the run
\* with the name-collision error
C14_AbortWitness ==
    /\ doc.fields = EnumFields(SameNames(RetryLimit + 1))
    /\ err = CollisionError

\* the run of mainfun under way has ended, with or without an error
RunEnded == pc = "done" \/ err # NoErr

\* what the run under way wrote last to a path
LastWritten(path) ==
    files[CHOOSE i \in 1..Len(files) :
             /\ files[i].path = path
             /\ \A j \in (i + 1)..Len(files) : files[j].path # path].content

RECURSIVE CountGroups(_)
\* the group elements in a list of elements, at any depth
CountGroups(body) ==
    IF Len(body) = 0 THEN 0
    ELSE (IF body[1].tag = "group" THEN 1 ELSE 0)
         + CountGroups(body[1].body) + CountGroups(Tail(body))

\* the group elements of a dictionary
GroupElements(d) == CountGroups(d.messages) + CountGroups(d.components)

\* C16: expansion terminates by its own means. Whatever the dictionary,
\* cyclic component references included, traverse_classes ends with a class
\* map or with an error of the expander: it never runs until the
\* interpreter's recursion limit ends it, and it creates no class at a path
\* deeper than the group elements of the dictionary account for.
C16_CyclesStopped ==
    /\ err # "RecursionError"
    /\ \A i \in 1..Len(map_classes) :
        Len(map_classes[i].ns_name) <= 1 + GroupElements(doc)

GroupItems(c) == {i \in 1..Len(c.items) : c.items[i].kind = "group"}
\* the path without its last segment
Parent(path) == SubSeq(path, 1, Len(path) - 1)

\* C17: group items and group classes correspond one to one. After a
\* successful expansion every group item g of every class C has a class at
\* C's path + g's name; every class below the root has a parent class that
\* holds a group item of its name; no class holds a component item; and so
\* the emitter never misses a nested class and never meets a component item.
C17_GroupsHaveClasses ==
    /\ Expanded =>
        \A i \in 1..Len(map_classes) :
            LET c == map_classes[i] IN
            /\ \A k \in GroupItems(c) :
                HasKey(map_classes, c.ns_name \o <<c.items[k].name>>)
            /\ Len(c.ns_name) > 1 =>
                /\ HasKey(map_classes, Parent(c.ns_name))
                /\ \E k \in GroupItems(Lookup(map_classes, Parent(c.ns_name))) :
                    Lookup(map_classes, Parent(c.ns_name)).items[k].name
                        = Last(c.ns_name)
            /\ \A k \in 1..Len(c.items) : c.items[k].kind \in {"field", "group"}
    /\ err \notin {"KeyError: map_classes",
                   "component must be expanded before generate definitions"}

\* C17 witness: M1 inlines K, K refers to L, L holds group G that nests group
\* H; the classes M1.G and M1.G.H exist and the emitter has gone through them
C17_Witness ==
    /\ pc = "done"
    /\ doc.components = CompsNested
    /\ doc.messages[1].body = <<XComp("K", "N")>>
    /\ Names(Lookup(map_classes, <<"M1">>).items) = <<"B", "G">>
    /\ Names(Lookup(map_classes, <<"M1", "G">>).items) = <<"A", "H">>
    /\ HasKey(map_classes, <<"M1", "G", "H">>)

====
